---- MODULE Spec2Model ----
(***************************************************************************)
(* Model of the supermarket POS program: main.py (menu loop) driving       *)
(* services.py (POSService, Sale, SaleItem, Product), whose Sale class is  *)
(* repeated verbatim in models.py.                                         *)
(*                                                                         *)
(* Money is counted in tenths of a cent (1.50 is 1500), so that the 10%    *)
(* tax of a price in whole cents is an integer; the program's floats are   *)
(* modelled by this exact arithmetic.  The two JSON files are modelled by  *)
(* their parsed content: absent, holding a complete mapping ("ok"), or     *)
(* truncated / partly written ("partial", which json.load rejects).        *)
(***************************************************************************)
EXTENDS Integers, Sequences, FiniteSets, TLC

VARIABLES
    pc,              \* position of the process in main() / process_sale()
    products,        \* POSService.products: product_id -> Product
    invFile,         \* data/inventory.json
    salesFile,       \* data/sales.json
    sale,            \* the Sale object of the current or the last workflow
    payment_method,  \* local of process_sale
    sales_data,      \* local of _save_sale between its read and its dump
    result,          \* what the last process_sale call gave its caller
    out,             \* the message the last step printed
    lastIn,          \* the input the last step read
    change,          \* the change the last step reported
    snap,            \* history: memory and files when the workflow started
    loaded,          \* history: the catalog as _load_inventory read it
    failed,          \* history: a write or read of a file has raised
    nsales,          \* history: sale workflows started so far
    ret              \* the Return object a caller of the Return class holds

vars == <<pc, products, invFile, salesFile, sale, payment_method, sales_data,
          result, out, lastIn, change, snap, loaded, failed, nsales, ret>>

(***************************************************************************)
(* Bounds of the model.                                                    *)
(***************************************************************************)
MaxItems == 2
MaxSales == 2

(***************************************************************************)
(* Data.                                                                   *)
(***************************************************************************)
EmptyMap == [k \in {} |-> k]

Product(product_id, name, price, stock) ==
    [product_id |-> product_id, name |-> name, price |-> price, stock |-> stock]

Product_to_dict(p) ==
    [product_id |-> p.product_id, name |-> p.name, price |-> p.price,
     stock |-> p.stock]

Product_from_dict(data) ==
    Product(data.product_id, data.name, data.price, data.stock)

\* the list _load_inventory seeds a missing inventory file with
sample_products ==
    << Product("001", "Apple", 1500, 100),
       Product("002", "Banana", 750, 150),
       Product("003", "Orange", 1200, 80),
       Product("004", "Milk", 2500, 50) >>

\* {p.product_id: p for p in sample_products}
ById(list) ==
    [pid \in {list[i].product_id : i \in DOMAIN list} |->
        list[CHOOSE i \in DOMAIN list : list[i].product_id = pid]]

AbsentFile == [state |-> "absent", data |-> EmptyMap]
PartialFile == [state |-> "partial", data |-> EmptyMap]
OkFile(data) == [state |-> "ok", data |-> data]

\* Sale.__init__
NewSale(sale_id) ==
    [sale_id |-> sale_id, items |-> << >>, subtotal |-> 0, tax |-> 0,
     total |-> 0, payment_method |-> "", payment_status |-> FALSE]

\* SaleItem.__init__: the item refers to the live Product (by its key here)
\* and captures price * quantity
SaleItem(product, quantity) ==
    [product |-> product.product_id, quantity |-> quantity,
     subtotal |-> product.price * quantity]

RECURSIVE SumSubtotals(_)
SumSubtotals(items) ==
    IF items = << >> THEN 0
    ELSE items[1].subtotal + SumSubtotals(Tail(items))

\* Sale._calculate_totals
TaxOf(subtotal) == (subtotal * 10) \div 100

\* _calculate_totals as it would be if the tax were taken from the subtotal
\* of before the change
Sale_calculate_totals_stale(s) ==
    LET sub == SumSubtotals(s.items)
        tax == TaxOf(s.subtotal)
    IN  [s EXCEPT !.subtotal = sub, !.tax = tax, !.total = sub + tax]

Sale_calculate_totals(s) ==
    LET sub == SumSubtotals(s.items)
        tax == TaxOf(sub)
    IN  [s EXCEPT !.subtotal = sub, !.tax = tax, !.total = sub + tax]

\* Sale.add_item
Sale_add_item(s, product, quantity) ==
    Sale_calculate_totals([s EXCEPT !.items = Append(@, SaleItem(product, quantity))])

\* process_payment as it would be if the amount were compared with the
\* subtotal, the tax forgotten
Sale_process_payment_untaxed(s, method, amount) ==
    IF amount >= s.subtotal
    THEN [s EXCEPT !.payment_method = method, !.payment_status = TRUE]
    ELSE [s EXCEPT !.payment_method = method]

\* Sale.process_payment
Sale_process_payment(s, method, amount) ==
    IF amount >= s.total
    THEN [s EXCEPT !.payment_method = method, !.payment_status = TRUE]
    ELSE [s EXCEPT !.payment_method = method]

\* Sale.to_dict (the timestamp is left out)
Sale_to_dict(s, prods) ==
    [sale_id |-> s.sale_id,
     items |-> [i \in DOMAIN s.items |->
                  [product_id |-> prods[s.items[i].product].product_id,
                   product_name |-> prods[s.items[i].product].name,
                   quantity |-> s.items[i].quantity,
                   price |-> prods[s.items[i].product].price,
                   subtotal |-> s.items[i].subtotal]],
     subtotal |-> s.subtotal, tax |-> s.tax, total |-> s.total,
     payment_method |-> s.payment_method,
     payment_status |-> s.payment_status]

\* the data _save_inventory serializes
InventoryData(prods) == [pid \in DOMAIN prods |-> Product_to_dict(prods[pid])]

payment_methods ==
    [c \in {"1", "2", "3", "4"} |->
        CASE c = "1" -> "Cash"
          [] c = "2" -> "Credit Card"
          [] c = "3" -> "Debit Card"
          [] c = "4" -> "Mobile Payment"]

\* UpdateStock as it would be if every line item set the stock from the stock
\* before the commit instead of decrementing it: the last line of a product wins
UpdateStockLastWins(prods, items) ==
    [pid \in DOMAIN prods |->
        IF \E i \in DOMAIN items : items[i].product = pid
        THEN LET last == CHOOSE i \in DOMAIN items :
                            /\ items[i].product = pid
                            /\ \A j \in DOMAIN items : items[j].product = pid => j <= i
             IN  [prods[pid] EXCEPT !.stock = @ - items[last].quantity]
        ELSE prods[pid]]

\* UpdateStock as it would be if the loop ran over the whole catalog, taking
\* every line's quantity from every product
RECURSIVE UpdateStockAllProducts(_, _)
UpdateStockAllProducts(prods, items) ==
    IF items = << >> THEN prods
    ELSE UpdateStockAllProducts(
            [pid \in DOMAIN prods |->
                [prods[pid] EXCEPT !.stock = @ - items[1].quantity]],
            Tail(items))

\* process_sale, "Update inventory": product.stock -= item.quantity per item
RECURSIVE UpdateStock(_, _)
UpdateStock(prods, items) ==
    IF items = << >> THEN prods
    ELSE UpdateStock(
            [prods EXCEPT ![items[1].product].stock = @ - items[1].quantity],
            Tail(items))

(***************************************************************************)
(* Returns.  services.py and models.py each define a Return class; the     *)
(* object remembers which of the two it was built from.  services.Return   *)
(* keeps ReturnItem objects, which capture price * quantity; models.Return *)
(* keeps plain dicts of product, quantity and reason.  Both refer to the   *)
(* live Product (by its key here).                                         *)
(***************************************************************************)
ReturnClasses == {"services.Return", "models.Return"}

NoReturn ==
    [class |-> "none", return_id |-> "", original_sale_id |-> "",
     items |-> << >>, refund_amount |-> 0]

\* Return.__init__ (the timestamp is left out)
NewReturn(class, return_id, original_sale_id) ==
    [class |-> class, return_id |-> return_id,
     original_sale_id |-> original_sale_id, items |-> << >>,
     refund_amount |-> 0]

\* ReturnItem.__init__
ReturnItem(product, quantity, reason) ==
    [product |-> product.product_id, quantity |-> quantity, reason |-> reason,
     refund_amount |-> product.price * quantity]

\* add_item as it would be if the refund were set to the new line's refund
\* instead of growing by it
Return_add_item_overwriting(r, product, quantity, reason) ==
    LET item == ReturnItem(product, quantity, reason)
    IN  [r EXCEPT !.items = Append(@, item),
                  !.refund_amount = item.refund_amount]

\* services.Return.add_item
Return_add_item(r, product, quantity, reason) ==
    LET item == ReturnItem(product, quantity, reason)
    IN  [r EXCEPT !.items = Append(@, item),
                  !.refund_amount = @ + item.refund_amount]

\* models.Return.add_item
models_Return_add_item(r, product, quantity, reason) ==
    [r EXCEPT !.items = Append(@, [product |-> product.product_id,
                                   quantity |-> quantity, reason |-> reason]),
              !.refund_amount = @ + product.price * quantity]

(***************************************************************************)
(* Inputs the operator and the environment are drawn from.                 *)
(***************************************************************************)
SaleIds == {"SALE-a", "SALE-b"}          \* outcomes of the uuid4 prefix
PidInputs == {"003", "004", "999"}       \* "999" names no product
QtyInputs == {0, 40, 80}                 \* Orange is seeded with 80, Milk with 50
PayChoices == {"1", "4", "9"}            \* "9" is no payment method
AmountDeltas == {-10, 0, 3500}           \* tendered amount minus the total
Input(kind, pid, qty) == [kind |-> kind, pid |-> pid, qty |-> qty]
NoInput == Input("none", "", 0)
NoSnap == [products |-> EmptyMap, invFile |-> AbsentFile, salesFile |-> AbsentFile]

(***************************************************************************)
(* Initial state: the process is about to start; the inventory file is     *)
(* absent (fresh environment) or was cut short by an interrupted write of  *)
(* an earlier run; there is no sales file yet.                             *)
(***************************************************************************)
Init ==
    /\ pc = "import"
    /\ products = EmptyMap
    /\ invFile \in {AbsentFile, PartialFile}
    /\ salesFile = AbsentFile
    /\ sale = NewSale("")
    /\ payment_method = ""
    /\ sales_data = EmptyMap
    /\ result = "none"
    /\ out = ""
    /\ lastIn = NoInput
    /\ change = 0
    /\ snap = NoSnap
    /\ loaded = EmptyMap
    /\ failed = FALSE
    /\ nsales = 0
    /\ ret = NoReturn

(***************************************************************************)
(* Shorthands for what a step prints and reads, and for the locals of      *)
(* process_sale going out of scope when it returns or raises.              *)
(***************************************************************************)
Step(printed, input, reported) ==
    /\ out' = printed
    /\ lastIn' = input
    /\ change' = reported

LocalsGone ==
    /\ payment_method' = ""
    /\ sales_data' = EmptyMap

(***************************************************************************)
(* Process start: "from services import POSService", then POSService().    *)
(* An exception here is outside main's try: the process ends.              *)
(***************************************************************************)
InTry == {"menu", "collect", "selpay", "pay", "update",
          "save_inv", "dump_inv", "save_sale", "dump_sale"}
Starting == {"import", "init", "seed_dump", "load"}

Crash(why) ==
    /\ pc' = "crashed"
    /\ Step(why, NoInput, 0)
    /\ UNCHANGED <<ret, products, sale, result, snap, payment_method, sales_data>>

\* services.py names Return in an annotation of ReturnItem._save_return before
\* the class Return is defined: an interpreter that evaluates annotations at
\* definition time raises NameError on import, one that defers them does not.
ImportServices ==
    /\ pc = "import"
    /\ \/ /\ pc' = "init"
          /\ UNCHANGED <<ret, products, sale, result, snap, payment_method,
                         sales_data, out, lastIn, change>>
       \/ Crash("NameError")
    /\ UNCHANGED <<ret, invFile, salesFile, loaded, failed, nsales>>

\* _load_inventory, file missing: _save_inventory(samples) opens the file for
\* writing (which creates it empty) or fails to
SeedOpen ==
    /\ pc = "init"
    /\ invFile.state = "absent"
    /\ \/ /\ invFile' = PartialFile
          /\ pc' = "seed_dump"
          /\ UNCHANGED <<ret, products, sale, result, snap, payment_method,
                         sales_data, out, lastIn, change, failed>>
       \/ invFile' = invFile /\ failed' = TRUE /\ Crash("OSError")
    /\ UNCHANGED <<ret, salesFile, loaded, nsales>>

\* ... and json.dump writes the samples, or fails part way
SeedDump ==
    /\ pc = "seed_dump"
    /\ \/ /\ invFile' = OkFile(InventoryData(ById(sample_products)))
          /\ pc' = "load"
          /\ UNCHANGED <<ret, products, sale, result, snap, payment_method,
                         sales_data, out, lastIn, change, failed>>
       \/ invFile' = invFile /\ failed' = TRUE /\ Crash("OSError")
    /\ UNCHANGED <<ret, salesFile, loaded, nsales>>

\* _load_inventory: json.load and Product.from_dict for every entry
LoadInventory ==
    /\ \/ pc = "load"
       \/ pc = "init" /\ invFile.state # "absent"
    /\ IF invFile.state = "ok"
       THEN /\ products' = [pid \in DOMAIN invFile.data |->
                               Product_from_dict(invFile.data[pid])]
            /\ loaded' = products'
            /\ pc' = "menu"
            /\ UNCHANGED <<ret, sale, result, snap, payment_method, sales_data,
                           out, lastIn, change, failed>>
       ELSE /\ failed' = TRUE
            /\ loaded' = loaded
            /\ Crash("JSONDecodeError")
    /\ UNCHANGED <<ret, invFile, salesFile, nsales>>

(***************************************************************************)
(* main(): the menu.                                                       *)
(***************************************************************************)
\* choice '1': process_sale() starts with a fresh Sale under a new identifier
StartSale ==
    /\ pc = "menu"
    /\ nsales < MaxSales
    /\ \E sale_id \in SaleIds : sale' = NewSale(sale_id)
    /\ pc' = "collect"
    /\ result' = "pending"
    /\ Step("PROCESS SALE", Input("menu", "1", 0), 0)
    /\ snap' = [products |-> products, invFile |-> invFile, salesFile |-> salesFile]
    /\ nsales' = nsales + 1
    /\ UNCHANGED <<ret, products, invFile, salesFile, payment_method, sales_data,
                   loaded, failed>>

\* choice '2' calls service.process_return(), which POSService does not have:
\* AttributeError, caught by "except Exception"; '3' shows the inventory;
\* anything else but '4' is an invalid selection
MenuOther ==
    /\ pc = "menu"
    /\ \E choice \in {"2", "3", "9"} :
          Step(CASE choice = "2" -> "Error occurred"
                 [] choice = "3" -> "INVENTORY STATUS"
                 [] OTHER -> "Error: Invalid selection",
               Input("menu", choice, 0), 0)
    /\ UNCHANGED <<ret, pc, products, invFile, salesFile, sale, payment_method,
                   sales_data, result, snap, loaded, failed, nsales>>

\* choice '4': sys.exit(0)
MenuExit ==
    /\ pc = "menu"
    /\ pc' = "exited"
    /\ Step("Goodbye", Input("menu", "4", 0), 0)
    /\ UNCHANGED <<ret, products, invFile, salesFile, sale, payment_method,
                   sales_data, result, snap, loaded, failed, nsales>>

(***************************************************************************)
(* process_sale(): item collection.                                        *)
(***************************************************************************)
\* get_product_by_id gives None for an identifier that is no key
KnownProduct(prods, product_id) == product_id \in DOMAIN prods

\* the stock check as it would be if it only refused a product that is out
\* of stock
InsufficientStockOnlyWhenEmpty(product, quantity) == product.stock <= 0

\* "if quantity > product.stock": the only stock check there is
InsufficientStock(product, quantity) == quantity > product.stock

\* what one pass of the loop prints for an identifier and a numeric quantity
ItemVerdict(prods, product_id, quantity) ==
    IF ~KnownProduct(prods, product_id) THEN "Error: Product ID does not exist"
    ELSE IF quantity <= 0 THEN "Error: Quantity must be greater than 0"
    ELSE IF InsufficientStock(prods[product_id], quantity)
         THEN "Error: Insufficient stock"
    ELSE "Added"

\* EnterItem as it would be if an accepted line took its quantity from the
\* stock at once
EnterItemReserving(product_id, quantity) ==
    /\ pc = "collect"
    /\ Step(ItemVerdict(products, product_id, quantity),
            Input("item", product_id, quantity), 0)
    /\ IF ItemVerdict(products, product_id, quantity) = "Added"
       THEN /\ Len(sale.items) < MaxItems
            /\ sale' = Sale_add_item(sale, products[product_id], quantity)
            /\ products' = [products EXCEPT ![product_id].stock = @ - quantity]
       ELSE sale' = sale /\ products' = products
    /\ UNCHANGED <<ret, pc, invFile, salesFile, payment_method,
                   sales_data, result, snap, loaded, failed, nsales>>

\* one pass of the loop with a product identifier and a numeric quantity
EnterItem(product_id, quantity) ==
    /\ pc = "collect"
    /\ Step(ItemVerdict(products, product_id, quantity),
            Input("item", product_id, quantity), 0)
    /\ IF ItemVerdict(products, product_id, quantity) = "Added"
       THEN /\ Len(sale.items) < MaxItems
            /\ sale' = Sale_add_item(sale, products[product_id], quantity)
       ELSE sale' = sale
    /\ UNCHANGED <<ret, pc, products, invFile, salesFile, payment_method,
                   sales_data, result, snap, loaded, failed, nsales>>

\* a known product, and a quantity int() cannot parse: ValueError
EnterBadQuantity(product_id) ==
    /\ pc = "collect"
    /\ KnownProduct(products, product_id)
    /\ Step("Error: Please enter a valid number",
            Input("item-nan", product_id, 0), 0)
    /\ UNCHANGED <<ret, pc, products, invFile, salesFile, sale, payment_method,
                   sales_data, result, snap, loaded, failed, nsales>>

\* Done as it would be without the "if not sale.items" check
DoneUnchecked ==
    /\ pc = "collect"
    /\ pc' = "selpay"
    /\ Step("Select Payment Method", Input("done", "", 0), 0)
    /\ UNCHANGED <<ret, products, invFile, salesFile, sale, payment_method,
                   sales_data, result, snap, loaded, failed, nsales>>

\* 'done': leave the loop; with no items the sale is dropped (return None)
Done ==
    /\ pc = "collect"
    /\ IF sale.items = << >>
       THEN /\ pc' = "menu"
            /\ result' = "None"
            /\ Step("No items added. Sale cancelled.", Input("done", "", 0), 0)
       ELSE /\ pc' = "selpay"
            /\ result' = result
            /\ Step("Select Payment Method", Input("done", "", 0), 0)
    /\ UNCHANGED <<ret, products, invFile, salesFile, sale, payment_method,
                   sales_data, snap, loaded, failed, nsales>>

\* 'cancel': return None
Cancel ==
    /\ pc = "collect"
    /\ pc' = "menu"
    /\ result' = "None"
    /\ Step("Sale cancelled", Input("cancel", "", 0), 0)
    /\ UNCHANGED <<ret, products, invFile, salesFile, sale, payment_method,
                   sales_data, snap, loaded, failed, nsales>>

(***************************************************************************)
(* process_sale(): payment.                                                *)
(***************************************************************************)
SelectPayment(choice) ==
    /\ pc = "selpay"
    /\ IF choice \in DOMAIN payment_methods
       THEN /\ payment_method' = payment_methods[choice]
            /\ pc' = "pay"
            /\ Step("Enter payment amount", Input("method", choice, 0), 0)
       ELSE /\ payment_method' = payment_method
            /\ pc' = pc
            /\ Step("Error: Invalid selection", Input("method", choice, 0), 0)
    /\ UNCHANGED <<ret, products, invFile, salesFile, sale, sales_data, result,
                   snap, loaded, failed, nsales>>

\* EnterAmount as it would be if an insufficient amount sent the operator back
\* to the choice of the payment method
EnterAmountBackToMethod(amount) ==
    /\ pc = "pay"
    /\ sale' = Sale_process_payment(sale, payment_method, amount)
    /\ IF sale'.payment_status
       THEN /\ pc' = "update"
            /\ Step("Payment successful", Input("amount", "", amount),
                    amount - sale.total)
       ELSE /\ pc' = "selpay"
            /\ Step("Insufficient amount", Input("amount", "", amount), 0)
    /\ UNCHANGED <<ret, products, invFile, salesFile, payment_method, sales_data,
                   result, snap, loaded, failed, nsales>>

\* a numeric amount: sale.process_payment decides
EnterAmount(amount) ==
    /\ pc = "pay"
    /\ sale' = Sale_process_payment(sale, payment_method, amount)
    /\ IF sale'.payment_status
       THEN /\ pc' = "update"
            /\ Step("Payment successful", Input("amount", "", amount),
                    amount - sale.total)
       ELSE /\ pc' = pc
            /\ Step("Insufficient amount", Input("amount", "", amount), 0)
    /\ UNCHANGED <<ret, products, invFile, salesFile, payment_method, sales_data,
                   result, snap, loaded, failed, nsales>>

\* an amount float() cannot parse: ValueError
EnterBadAmount ==
    /\ pc = "pay"
    /\ Step("Error: Please enter a valid amount", Input("amount-nan", "", 0), 0)
    /\ UNCHANGED <<ret, pc, products, invFile, salesFile, sale, payment_method,
                   sales_data, result, snap, loaded, failed, nsales>>

\* "Update inventory"
UpdateInventory ==
    /\ pc = "update"
    /\ products' = UpdateStock(products, sale.items)
    /\ pc' = "save_inv"
    /\ Step("", NoInput, 0)
    /\ UNCHANGED <<ret, invFile, salesFile, sale, payment_method, sales_data,
                   result, snap, loaded, failed, nsales>>

(***************************************************************************)
(* process_sale(): "Save data".  Each file is written by open(file, 'w'),  *)
(* which truncates it, and json.dump; either can raise OSError.  Nothing   *)
(* in process_sale catches an exception: it reaches main's                 *)
(* "except Exception", which prints it and goes back to the menu.          *)
(***************************************************************************)
Raised ==
    /\ pc' = "menu"
    /\ result' = "raised"
    /\ failed' = TRUE
    /\ sale' = sale
    /\ LocalsGone
    /\ Step("Error occurred", NoInput, 0)

Proceed(next) ==
    /\ pc' = next
    /\ Step("", NoInput, 0)
    /\ UNCHANGED <<ret, result, failed, sale, payment_method>>

MapPut(m, k, v) == [x \in DOMAIN m \cup {k} |-> IF x = k THEN v ELSE m[x]]

\* _save_inventory(self.products): open
SaveInventoryOpen ==
    /\ pc = "save_inv"
    /\ \/ invFile' = PartialFile /\ Proceed("dump_inv") /\ sales_data' = sales_data
       \/ invFile' = invFile /\ Raised
    /\ UNCHANGED <<ret, products, salesFile, snap, loaded, nsales>>

\* SaveInventoryDump as it would be if a failed write were swallowed
SaveInventoryDumpSwallowing ==
    /\ pc = "dump_inv"
    /\ \/ invFile' = OkFile(InventoryData(products))
       \/ invFile' = invFile
    /\ Proceed("save_sale")
    /\ UNCHANGED <<ret, products, salesFile, sales_data, snap, loaded, nsales>>

\* _save_inventory(self.products): json.dump, then on to _save_sale
SaveInventoryDump ==
    /\ pc = "dump_inv"
    /\ \/ /\ invFile' = OkFile(InventoryData(products))
          /\ Proceed("save_sale") /\ sales_data' = sales_data
       \/ invFile' = invFile /\ Raised
    /\ UNCHANGED <<ret, products, salesFile, snap, loaded, nsales>>

\* _save_sale(sale): read the ledger if the file exists, put the record under
\* its sale_id, open the file for writing
SaveSaleOpen ==
    /\ pc = "save_sale"
    /\ IF salesFile.state = "partial"
       THEN salesFile' = salesFile /\ Raised
       ELSE \/ /\ salesFile' = PartialFile
               /\ sales_data' = MapPut(salesFile.data, sale.sale_id,
                                       Sale_to_dict(sale, products))
               /\ Proceed("dump_sale")
            \/ salesFile' = salesFile /\ Raised
    /\ UNCHANGED <<ret, products, invFile, snap, loaded, nsales>>

\* _save_sale(sale): json.dump; then the receipt, and "return sale"
SaveSaleDump ==
    /\ pc = "dump_sale"
    /\ \/ /\ salesFile' = OkFile(sales_data)
          /\ pc' = "menu"
          /\ result' = "sale"
          /\ Step("SALES RECEIPT", NoInput, 0)
          /\ LocalsGone
          /\ UNCHANGED <<ret, sale, failed>>
       \/ salesFile' = salesFile /\ Raised
    /\ UNCHANGED <<ret, products, invFile, snap, loaded, nsales>>

(***************************************************************************)
(* Ctrl-C (KeyboardInterrupt: sys.exit(0) inside main's try, a traceback   *)
(* outside it) or a kill, at any point: the process ends, the files stay   *)
(* as they are.  The variables keep what memory held at that moment.       *)
(***************************************************************************)
Interrupt ==
    /\ pc \in InTry \cup Starting
    /\ pc' = IF pc \in InTry THEN "exited" ELSE "crashed"
    /\ Step("interrupted", NoInput, 0)
    /\ UNCHANGED <<ret, products, invFile, salesFile, sale, payment_method,
                   sales_data, result, snap, loaded, failed, nsales>>

Next ==
    \/ ImportServices
    \/ SeedOpen
    \/ SeedDump
    \/ LoadInventory
    \/ StartSale
    \/ MenuOther
    \/ MenuExit
    \/ \E product_id \in PidInputs, quantity \in QtyInputs :
          EnterItem(product_id, quantity)
    \/ \E product_id \in PidInputs : EnterBadQuantity(product_id)
    \/ Done
    \/ Cancel
    \/ \E choice \in PayChoices : SelectPayment(choice)
    \/ \E d \in AmountDeltas : EnterAmount(sale.total + d)
    \/ EnterBadAmount
    \/ UpdateInventory
    \/ SaveInventoryOpen
    \/ SaveInventoryDump
    \/ SaveSaleOpen
    \/ SaveSaleDump
    \/ Interrupt

Spec == Init /\ [][Next]_vars

(***************************************************************************)
(* The Return classes used on their own.  No workflow of the program       *)
(* builds a Return (see C12), so this second specification drives the      *)
(* class as any caller may: it constructs a Return for a sale that has     *)
(* been committed (one line, 3 Orange) and calls add_item on it.           *)
(***************************************************************************)
ReturnIds == {"RET-a"}
ReturnQtyInputs == {0, 2, 4}     \* the original line has quantity 3
ReturnReasons == {"damaged"}

OriginalSale ==
    LET s == Sale_add_item(NewSale("SALE-a"), sample_products[3], 3)
    IN  Sale_process_payment(s, "Cash", s.total)

ReturnInit ==
    /\ pc = "caller"
    /\ loaded = ById(sample_products)
    /\ products = UpdateStock(loaded, OriginalSale.items)
    /\ invFile = OkFile(InventoryData(products))
    /\ sale = OriginalSale
    /\ salesFile = OkFile(MapPut(EmptyMap, sale.sale_id, Sale_to_dict(sale, products)))
    /\ payment_method = ""
    /\ sales_data = EmptyMap
    /\ result = "sale"
    /\ out = ""
    /\ lastIn = NoInput
    /\ change = 0
    /\ snap = NoSnap
    /\ failed = FALSE
    /\ nsales = 1
    /\ ret = NoReturn

ReturnUntouched ==
    UNCHANGED <<pc, products, invFile, salesFile, sale, payment_method,
                sales_data, result, out, lastIn, change, snap, loaded, failed,
                nsales>>

\* Return(return_id, original_sale_id)
ReturnCreate ==
    /\ pc = "caller"
    /\ ret = NoReturn
    /\ \E class \in ReturnClasses, return_id \in ReturnIds :
          ret' = NewReturn(class, return_id, sale.sale_id)
    /\ ReturnUntouched

\* ret.add_item(product, quantity, reason)
ReturnAddItem(product, quantity, reason) ==
    /\ pc = "caller"
    /\ ret # NoReturn
    /\ Len(ret.items) < MaxItems
    /\ ret' = IF ret.class = "services.Return"
              THEN Return_add_item(ret, product, quantity, reason)
              ELSE models_Return_add_item(ret, product, quantity, reason)
    /\ ReturnUntouched

ReturnNext ==
    \/ ReturnCreate
    \/ \E pid \in DOMAIN products, quantity \in ReturnQtyInputs,
          reason \in ReturnReasons :
          ReturnAddItem(products[pid], quantity, reason)

ReturnSpec == ReturnInit /\ [][ReturnNext]_vars

(***************************************************************************)
(* What the properties below speak of.                                     *)
(***************************************************************************)
\* process_sale has returned its Sale to main: the sale is committed
Committed == pc = "menu" /\ result = "sale"

\* the quantity of one product over all line items of a sale
RECURSIVE QuantityOf(_, _)
QuantityOf(items, pid) ==
    IF items = << >> THEN 0
    ELSE (IF items[1].product = pid THEN items[1].quantity ELSE 0)
         + QuantityOf(Tail(items), pid)

(***************************************************************************)
(* C1: no product's stock is ever negative, whatever sales have been       *)
(* committed and whatever their line items were (the check of a line's     *)
(* quantity against the stock when the line is entered is enough).         *)
(* The code breaks this: the check compares each line with the whole       *)
(* stock, so two lines of one product can take more than there is.         *)
(***************************************************************************)
C1_StockNeverNegative ==
    \A pid \in DOMAIN products : products[pid].stock >= 0

(***************************************************************************)
(* C2 as stated: after a committed sale, for every line item, the stock of *)
(* its product is the stock before the commit minus that line's quantity.  *)
(* (snap.products is the stock before the commit: see C2_StockBeforeCommit)*)
(***************************************************************************)
C2_StockMinusLineQuantity ==
    Committed =>
        \A i \in DOMAIN sale.items :
            products[sale.items[i].product].stock
                = snap.products[sale.items[i].product].stock - sale.items[i].quantity

(***************************************************************************)
(* C2 as amended: after a committed sale, for every line item, the stock   *)
(* of its product, in memory and in the inventory file, is the stock       *)
(* before the commit minus the quantities of all the sale's lines that     *)
(* name that product; and up to the commit the stock is what it was when   *)
(* the workflow started.                                                   *)
(***************************************************************************)
C2_StockMinusProductQuantities ==
    /\ pc \in {"collect", "selpay", "pay", "update"} => products = snap.products
    /\ Committed =>
        \A i \in DOMAIN sale.items :
            LET pid == sale.items[i].product
            IN  /\ products[pid].stock
                     = snap.products[pid].stock - QuantityOf(sale.items, pid)
                /\ invFile.data[pid].stock = products[pid].stock

\* a sale with two lines of one product, which together the stock covered,
\* has been committed
C2_Witness ==
    /\ Committed
    /\ \E i, j \in DOMAIN sale.items :
          /\ i # j
          /\ sale.items[i].product = sale.items[j].product
          /\ products[sale.items[i].product].stock >= 0

(***************************************************************************)
(* More of what the properties speak of.                                   *)
(***************************************************************************)
\* the workflow has left memory and both files as they were when it started
Untouched ==
    /\ products = snap.products
    /\ invFile = snap.invFile
    /\ salesFile = snap.salesFile

\* the ledger holds this sale's record
Recorded(s) ==
    /\ salesFile.state = "ok"
    /\ s.sale_id \in DOMAIN salesFile.data
    /\ salesFile.data[s.sale_id] = Sale_to_dict(s, products)

\* the sum over the line items of quantity x unit price
RECURSIVE LineTotal(_, _)
LineTotal(items, prods) ==
    IF items = << >> THEN 0
    ELSE items[1].quantity * prods[items[1].product].price
         + LineTotal(Tail(items), prods)

\* an entry item collection must refuse
Refused(prods, product_id, quantity) ==
    \/ product_id \notin DOMAIN prods
    \/ quantity <= 0
    \/ quantity > prods[product_id].stock

(***************************************************************************)
(* C3: in the state the cancel sentinel leaves, the workflow has ended     *)
(* (control is at the menu), process_sale has returned None, and the       *)
(* stock in memory, the inventory file and the sales file are what they    *)
(* were when the workflow started, however many lines had been added.      *)
(***************************************************************************)
C3_CancelLeavesAllUntouched ==
    lastIn.kind = "cancel" =>
        /\ pc = "menu"
        /\ result = "None"
        /\ Untouched

\* a sale of two lines is cancelled while the ledger holds an earlier sale
C3_Witness ==
    /\ lastIn.kind = "cancel"
    /\ Len(sale.items) = 2
    /\ salesFile.state = "ok"

(***************************************************************************)
(* C4: every record of the sales file, and every sale process_sale has     *)
(* returned, has at least one line item.                                   *)
(***************************************************************************)
C4_NoEmptySale ==
    /\ salesFile.state = "ok" =>
          \A id \in DOMAIN salesFile.data : DOMAIN salesFile.data[id].items # {}
    /\ result = "sale" => sale.items # << >>

\* 'done' on a sale without lines, with a ledger an empty sale could get into
C4_Witness ==
    /\ lastIn.kind = "done"
    /\ sale.items = << >>
    /\ result = "None"
    /\ salesFile.state = "ok"

(***************************************************************************)
(* C5: process_sale has returned the sale only if the inventory file holds *)
(* the updated catalog and the sales file holds the sale's record; the     *)
(* sales file is not touched before the inventory file holds the updated   *)
(* catalog; and a settled sale that did not end in success ended in an     *)
(* exception reaching the caller (after a failed write), not in a result.  *)
(***************************************************************************)
C5_PersistThenReport ==
    /\ result = "sale" =>
          /\ invFile = OkFile(InventoryData(products))
          /\ Recorded(sale)
    /\ (result = "pending" /\ (pc = "dump_sale" \/ salesFile # snap.salesFile)) =>
          invFile = OkFile(InventoryData(products))
    /\ (pc = "menu" /\ sale.payment_status /\ result # "sale") =>
          result = "raised" /\ failed

\* the catalog was written, the write of the sale record failed, and the
\* caller got the exception
C5_Witness ==
    /\ pc = "menu"
    /\ result = "raised"
    /\ invFile = OkFile(InventoryData(products))
    /\ products # snap.products
    /\ ~Recorded(sale)

(***************************************************************************)
(* C6: when the process has been interrupted in a sale workflow and the    *)
(* inventory file holds a catalog this workflow wrote (so it carries the   *)
(* sale's stock decrement), the sales file holds the sale's record.        *)
(* The code breaks this between _save_inventory and _save_sale.            *)
(***************************************************************************)
C6_NeverHalfApplied ==
    (/\ pc = "exited"
     /\ out = "interrupted"
     /\ result = "pending"
     /\ invFile.state = "ok"
     /\ invFile # snap.invFile) => Recorded(sale)

(***************************************************************************)
(* C7: in every state, and so after every add_item, the sale's subtotal is *)
(* the sum over its line items of quantity x unit price, its tax is a      *)
(* tenth of the subtotal, and its total is subtotal + tax.                 *)
(***************************************************************************)
C7_TotalsNeverStale ==
    /\ sale.subtotal = LineTotal(sale.items, products)
    /\ sale.tax * 10 = sale.subtotal
    /\ sale.total = sale.subtotal + sale.tax

\* a second line, of another product, has just been added
C7_Witness ==
    /\ out = "Added"
    /\ Len(sale.items) = 2
    /\ sale.items[1].product # sale.items[2].product

(***************************************************************************)
(* C8: an amount >= the total settles the sale, and the change reported is *)
(* amount - total >= 0; an amount < the total leaves the sale unsettled,   *)
(* memory and files untouched, and the workflow at the amount prompt;      *)
(* stock is decremented, files are written and a sale is recorded or       *)
(* returned only with payment_status true.                                 *)
(***************************************************************************)
C8_SettledOnlyWhenPaid ==
    /\ (lastIn.kind = "amount" /\ lastIn.qty >= sale.total) =>
          /\ sale.payment_status
          /\ pc = "update"
          /\ change = lastIn.qty - sale.total
          /\ change >= 0
    /\ (lastIn.kind = "amount" /\ lastIn.qty < sale.total) =>
          /\ ~sale.payment_status
          /\ pc = "pay"
          /\ Untouched
    /\ (result = "pending" /\ ~sale.payment_status) => Untouched
    /\ pc \in {"update", "save_inv", "dump_inv", "save_sale", "dump_sale"} =>
          sale.payment_status
    /\ result = "sale" => sale.payment_status
    /\ salesFile.state = "ok" =>
          \A id \in DOMAIN salesFile.data : salesFile.data[id].payment_status

\* an amount below the total has been entered
C8_Witness ==
    /\ lastIn.kind = "amount"
    /\ lastIn.qty < sale.total
    /\ pc = "pay"

(***************************************************************************)
(* C9: a step of item collection whose entry names no product, or has a    *)
(* quantity <= 0, or a quantity above the product's stock, prints an       *)
(* error, appends no line, leaves the sale's totals, every stock and both  *)
(* files as they are, and stays in item collection.                        *)
(***************************************************************************)
C9_RefusedItemChangesNothing ==
    [][(lastIn'.kind = "item" /\ Refused(products, lastIn'.pid, lastIn'.qty)) =>
          /\ pc = "collect" /\ pc' = "collect"
          /\ out' # "Added"
          /\ sale' = sale
          /\ products' = products
          /\ invFile' = invFile
          /\ salesFile' = salesFile]_vars

\* more than the stock has been asked for, for a sale that has a line already
C9_Witness ==
    /\ lastIn.kind = "item"
    /\ lastIn.pid \in DOMAIN products
    /\ lastIn.qty > products[lastIn.pid].stock
    /\ out = "Error: Insufficient stock"
    /\ Len(sale.items) = 1

(***************************************************************************)
(* C10: when a sale has been committed, every record the sales file held   *)
(* when the workflow started is still there, unaltered (next to the new    *)
(* one).  The code breaks this when the new sale's identifier is that of   *)
(* an earlier sale: _save_sale puts the new record in its place.           *)
(***************************************************************************)
C10_LedgerRecordsKept ==
    Committed =>
        /\ salesFile.state = "ok"
        /\ \A id \in DOMAIN snap.salesFile.data :
              /\ id \in DOMAIN salesFile.data
              /\ salesFile.data[id] = snap.salesFile.data[id]

(***************************************************************************)
(* C11: when the process has been interrupted after it had loaded the      *)
(* catalog (so the inventory file held a complete mapping), the inventory  *)
(* file still holds a complete mapping, the previous one or the new one:   *)
(* never an empty or partly written file.  The code breaks this:           *)
(* _save_inventory opens the file itself with 'w', which empties it before *)
(* json.dump writes.                                                       *)
(***************************************************************************)
C11_CatalogSaveAtomic ==
    (/\ pc = "exited"
     /\ out = "interrupted"
     /\ ~failed
     /\ loaded # EmptyMap) =>
        /\ invFile.state = "ok"
        /\ \/ invFile = snap.invFile
           \/ invFile = OkFile(InventoryData(products))

(***************************************************************************)
(* C12: a committed return adds the returned quantity to the product's     *)
(* stock, and choosing the return operation from the menu can reach such a *)
(* committed return.  A return can only be reached if the step that reads  *)
(* choice '2' takes control into a return workflow; so, right after        *)
(* choice '2' has been read, the process is in the return workflow and has *)
(* reported no error.  The code breaks this: main calls                    *)
(* service.process_return(), a method POSService does not have, and the    *)
(* AttributeError is reported as an error at the menu; no stock changes.   *)
(***************************************************************************)
C12_ReturnChoiceStartsReturn ==
    lastIn = Input("menu", "2", 0) =>
        /\ pc # "menu"
        /\ out # "Error occurred"

C14_EightDefaultProducts ==
    loaded # EmptyMap =>
        /\ Cardinality(DOMAIN loaded) = 8
        /\ {loaded[pid].name : pid \in DOMAIN loaded} =
              {"Apple", "Banana", "Orange", "Milk", "Bread", "Egg", "Water",
               "Chocolate"}
        /\ \A pid \in DOMAIN loaded :
              loaded[pid].stock > 0 /\ loaded[pid].price > 0

(***************************************************************************)
(* C15: whenever control is at the main menu, and when the operator has    *)
(* chosen exit, the inventory file holds exactly the in-memory product     *)
(* mapping: nothing is pending.  The code breaks this: when a save raises  *)
(* in process_sale, the stock has been decremented in memory already and   *)
(* main goes back to the menu with it.                                     *)
(***************************************************************************)
C15_NoPendingStateAtMenu ==
    (pc = "menu" \/ (pc = "exited" /\ out = "Goodbye")) =>
        invFile = OkFile(InventoryData(products))

(***************************************************************************)
(* C16: a storage error (a file that cannot be parsed, a write that        *)
(* fails) never ends the process: it is reported and control is at the     *)
(* menu, wherever the error happens.  The code breaks this at start:       *)
(* POSService() is called outside main's try, so an error of               *)
(* _load_inventory is an uncaught exception.                               *)
(***************************************************************************)
C16_StorageErrorNeverTerminates ==
    (failed /\ out \in {"OSError", "JSONDecodeError", "Error occurred"}) =>
        /\ pc = "menu"
        /\ out = "Error occurred"

(***************************************************************************)
(* C17: a sale workflow goes through item collection, payment method       *)
(* selection, the amount prompt and settlement in that order: a step       *)
(* stays where it is, moves one stage forward, or leaves the workflow for  *)
(* the menu; a workflow starts at item collection; and as long as the      *)
(* payment has not been settled, the sale is unpaid and the stock in       *)
(* memory, the inventory file and the sales file are as the workflow       *)
(* found them.                                                             *)
(***************************************************************************)
Stage(p) ==
    CASE p = "collect" -> 1
      [] p = "selpay" -> 2
      [] p = "pay" -> 3
      [] p \in {"update", "save_inv", "dump_inv", "save_sale", "dump_sale"} -> 4
      [] OTHER -> 0

C17_StagesInOrder ==
    /\ [](Stage(pc) \in {1, 2, 3} => (~sale.payment_status /\ Untouched))
    /\ [](pc = "update" => (sale.payment_status /\ Untouched))
    /\ [][/\ (Stage(pc) = 0 /\ Stage(pc') # 0) => Stage(pc') = 1
          /\ (Stage(pc) # 0 /\ Stage(pc') # 0) =>
                Stage(pc') \in {Stage(pc), Stage(pc) + 1}]_vars

\* a workflow that has been through all the stages: two lines collected, a
\* method chosen, an amount above the total tendered
C17_Witness ==
    /\ pc = "update"
    /\ Len(sale.items) = 2
    /\ lastIn.kind = "amount"
    /\ lastIn.qty > sale.total
    /\ sale.payment_method = "Mobile Payment"

(***************************************************************************)
(* C18: after any sequence of add_item calls on a Return, of either class, *)
(* its refund_amount is the sum over its line items of quantity x unit     *)
(* price; for a services.Return this is also the sum of the refunds its    *)
(* ReturnItems captured.  (The program's floats are modelled by exact      *)
(* arithmetic.)                                                            *)
(***************************************************************************)
RECURSIVE SumRefunds(_)
SumRefunds(items) ==
    IF items = << >> THEN 0
    ELSE items[1].refund_amount + SumRefunds(Tail(items))

C18_RefundIsSumOfLines ==
    /\ ret.refund_amount = LineTotal(ret.items, products)
    /\ ret.class = "services.Return" =>
          ret.refund_amount = SumRefunds(ret.items)

\* two add_item calls, for different products, each with a refund
C18_Witness ==
    /\ Len(ret.items) = 2
    /\ ret.items[1].product # ret.items[2].product
    /\ ret.items[1].quantity > 0
    /\ ret.items[2].quantity > 0
    /\ ret.refund_amount > 0

(***************************************************************************)
(* C19: stock conservation.  Whenever control is at the menu and no write  *)
(* has failed or been interrupted, for every product the stock that was    *)
(* loaded at start minus the stock in the inventory file is the sum of the *)
(* product's quantities over all line items of all records of the sales    *)
(* file.  The code breaks this when two sales get one identifier: the      *)
(* second record replaces the first (C10), whose quantities are lost to    *)
(* the ledger while the stock they took stays taken.                       *)
(***************************************************************************)
\* the quantity of the product in the line items of one ledger record
RECURSIVE RecordQuantity(_, _)
RecordQuantity(items, pid) ==
    IF items = << >> THEN 0
    ELSE (IF items[1].product_id = pid THEN items[1].quantity ELSE 0)
         + RecordQuantity(Tail(items), pid)

\* the quantity of the product over the records of the ledger named in ids
RECURSIVE LedgerQuantity(_, _, _)
LedgerQuantity(data, ids, pid) ==
    IF ids = {} THEN 0
    ELSE LET id == CHOOSE x \in ids : TRUE
         IN  RecordQuantity(data[id].items, pid)
             + LedgerQuantity(data, ids \ {id}, pid)

C19_StockConservation ==
    (pc = "menu" /\ ~failed) =>
        /\ invFile.state = "ok"
        /\ salesFile.state \in {"ok", "absent"}
        /\ \A pid \in DOMAIN loaded :
              loaded[pid].stock - invFile.data[pid].stock
                 = LedgerQuantity(salesFile.data, DOMAIN salesFile.data, pid)

(***************************************************************************)
(* C20: when a sale has been committed, the catalog holds the same         *)
(* products as when the workflow started, each with the identifier, name   *)
(* and price it had, and every product that is in none of the sale's line  *)
(* items has the stock it had; and the inventory file written by the       *)
(* commit says the same of every such product.                             *)
(***************************************************************************)
InLines(s, pid) == \E i \in DOMAIN s.items : s.items[i].product = pid

C20_OnlyLineProductsChange ==
    Committed =>
        /\ DOMAIN products = DOMAIN snap.products
        /\ DOMAIN invFile.data = DOMAIN snap.products
        /\ \A pid \in DOMAIN snap.products :
              /\ products[pid].product_id = snap.products[pid].product_id
              /\ products[pid].name = snap.products[pid].name
              /\ products[pid].price = snap.products[pid].price
              /\ ~InLines(sale, pid) =>
                    /\ products[pid] = snap.products[pid]
                    /\ invFile.data[pid] = Product_to_dict(snap.products[pid])

\* the second sale of a run is committed: it has lines of two products, the
\* first sale had taken stock, and two products are in no line
C20_Witness ==
    /\ Committed
    /\ nsales = 2
    /\ snap.products # loaded
    /\ Len(sale.items) = 2
    /\ sale.items[1].product # sale.items[2].product
    /\ \E pid \in DOMAIN products : ~InLines(sale, pid)

====
